---- MODULE Spec2Model ----
(***************************************************************************)
(* gpytorch/lazy/non_lazy_tensor.py: the NonLazyTensor adapter around a    *)
(* dense torch.Tensor, and the lazify factory.                             *)
(*                                                                         *)
(* Objects live on a heap (a sequence; an object's identity is its index). *)
(* A dense tensor is a shape and its entries in row-major order; indices   *)
(* and coordinates are 0-based as in Python, sequence positions 1-based.   *)
(* Every method call is one action; it records the call, its result and    *)
(* the exception it raised.                                                *)
(***************************************************************************)
EXTENDS Naturals, Integers, Sequences, FiniteSets, TLC

VARIABLES heap, call, ret, exc

vars == <<heap, call, ret, exc>>

\* ---------------------------------------------------------------- bounds
\* every dimension (batch, rows, columns) of an input tensor is in 1..MaxDim
MaxDim == 2
\* the entries of an input tensor are start, start+1, ... with start in 0..MaxStart
MaxStart == 1
\* the heap holds at most MaxHeap objects
MaxHeap == 4
\* a chain of _transpose_nonbatch() calls is at most MaxTransposes long
MaxTransposes == 2

\* ------------------------------------------------------- dense tensors
RECURSIVE Prod(_)
Prod(s) == IF s = <<>> THEN 1 ELSE Head(s) * Prod(Tail(s))

RECURSIVE Sum(_, _)
\* sum of f[j] for j in 0..k-1
Sum(f, k) == IF k = 0 THEN 0 ELSE f[k - 1] + Sum(f, k - 1)

Min(a, b) == IF a < b THEN a ELSE b
Max(a, b) == IF a > b THEN a ELSE b

Numel(shape) == Prod(shape)

\* number of entries spanned by one step along dimension j
Stride(shape, j) == Prod(SubSeq(shape, j + 1, Len(shape)))

RECURSIVE FlatUpTo(_, _, _)
FlatUpTo(shape, idx, j) ==
    IF j = 0 THEN 0 ELSE FlatUpTo(shape, idx, j - 1) * shape[j] + idx[j]

\* row-major offset (0-based) of the entry at coordinates idx
Flat(shape, idx) == FlatUpTo(shape, idx, Len(shape))

Strides(shape) == [j \in 1..Len(shape) |-> Stride(shape, j)]

\* coordinates of the entry at row-major offset q
UnflatBy(shape, strides, q) == [j \in 1..Len(shape) |-> (q \div strides[j]) % shape[j]]

At(t, idx) == t.data[Flat(t.shape, idx) + 1]

\* the coordinates of the entries of a tensor of the given shape
Coords(shape) == {c \in [1..Len(shape) -> 0..MaxDim] : \A j \in 1..Len(shape) : c[j] < shape[j]}

\* the tensor of the given shape whose entry at coordinates idx is f[idx]
MkTensorOf(shape, strides, numel, f) ==
    [shape |-> shape, data |-> [p \in 1..numel |-> f[UnflatBy(shape, strides, p - 1)]]]
MkTensor(shape, f) == MkTensorOf(shape, Strides(shape), Numel(shape), f)

\* torch.arange(start, start + numel).reshape(shape)
Arange(shape, start) == [shape |-> shape, data |-> [p \in 1..Numel(shape) |-> start + p - 1]]

Rank(t) == Len(t.shape)

\* the input tensors: matrices and batches of matrices
Shapes == UNION {[1..r -> 1..MaxDim] : r \in 2..3}
InputTensors == {Arange(s, st) : s \in Shapes, st \in 0..MaxStart}

\* ---------------------------------------------- torch primitives used
SwapLast2(s) ==
    [j \in 1..Len(s) |-> IF j = Len(s) THEN s[Len(s) - 1]
                         ELSE IF j = Len(s) - 1 THEN s[Len(s)] ELSE s[j]]

\* Tensor.transpose(-1, -2); needs two dimensions
TransposeOk(t) == Rank(t) >= 2
Transpose(t) ==
    MkTensor(SwapLast2(t.shape), [idx \in Coords(SwapLast2(t.shape)) |-> At(t, SwapLast2(idx))])

\* torch.matmul(a, b): a 1-D left operand is a row, a 1-D right operand a
\* column (the added dimension is dropped from the result); batch
\* dimensions broadcast
MatShape(t, left) ==
    IF Rank(t) = 1 THEN (IF left THEN <<1>> \o t.shape ELSE t.shape \o <<1>>) ELSE t.shape
BatchOf(s) == SubSeq(s, 1, Len(s) - 2)
BatchOk(ba, bb) == ba = <<>> \/ bb = <<>> \/ ba[1] = bb[1] \/ ba[1] = 1 \/ bb[1] = 1
BatchJoin(ba, bb) ==
    IF ba = <<>> THEN bb ELSE IF bb = <<>> THEN ba ELSE <<Max(ba[1], bb[1])>>
\* coordinates of an operand's batch for the result's batch coordinates bc
BatchPick(bs, bc) == IF bs = <<>> THEN <<>> ELSE <<IF bs[1] = 1 THEN 0 ELSE bc[1]>>

MatmulOk(a, b) ==
    LET sa == MatShape(a, TRUE)
        sb == MatShape(b, FALSE)
    IN  /\ sa[Len(sa)] = sb[Len(sb) - 1]
        /\ BatchOk(BatchOf(sa), BatchOf(sb))

\* the product of operands of batch shapes ba and bb: n x m by m x k
MatmulOf(a, b, ba, bb, batch, n, m, k) ==
    LET nb == Len(batch)
        ACoord(bc, i, j) == IF Rank(a) = 1 THEN <<j>> ELSE BatchPick(ba, bc) \o <<i, j>>
        BCoord(bc, j, c) == IF Rank(b) = 1 THEN <<j>> ELSE BatchPick(bb, bc) \o <<j, c>>
        Entry(idx) ==
            LET bc == SubSeq(idx, 1, nb)
                i == idx[nb + 1]
                c == idx[nb + 2]
            IN  Sum([j \in 0..(m - 1) |-> At(a, ACoord(bc, i, j)) * At(b, BCoord(bc, j, c))], m)
        shape == batch \o (IF Rank(a) = 1 THEN <<>> ELSE <<n>>)
                       \o (IF Rank(b) = 1 THEN <<>> ELSE <<k>>)
    IN  [shape |-> shape, data |-> MkTensor(batch \o <<n, k>>,
                                               [idx \in Coords(batch \o <<n, k>>) |-> Entry(idx)]).data]

MatmulShaped(a, b, sa, sb) ==
    MatmulOf(a, b, BatchOf(sa), BatchOf(sb), BatchJoin(BatchOf(sa), BatchOf(sb)),
             sa[Len(sa) - 1], sa[Len(sa)], sb[Len(sb)])

Matmul(a, b) == MatmulShaped(a, b, MatShape(a, TRUE), MatShape(b, FALSE))

\* Tensor.diagonal(dim1=-2, dim2=-1); needs two dimensions
DiagonalOk(t) == Rank(t) >= 2
Diagonal(t) ==
    LET r == Rank(t)
        batch == BatchOf(t.shape)
        shape == batch \o <<Min(t.shape[r - 1], t.shape[r])>>
    IN  MkTensor(shape, [idx \in Coords(shape) |-> At(t, idx \o <<idx[Len(idx)]>>)])

\* --------------------------------------------------- Tensor.__getitem__
\* An index is an int, a slice lo:hi (open: the stop is None), a 1-D index
\* tensor or a list of ints.
IntIdx(i) == [k |-> "int", i |-> i]
SliceIdx(lo, hi) == [k |-> "slice", lo |-> lo, hi |-> hi, open |-> FALSE]
SliceFrom(lo) == [k |-> "slice", lo |-> lo, hi |-> 0, open |-> TRUE]
FullSlice == SliceFrom(0)
TensorIdx(seq) == [k |-> "tensor", seq |-> seq]
ListIdx(seq) == [k |-> "list", seq |-> seq]

IsAdv(it) == it.k \in {"tensor", "list"}

\* the index of dimension j: a tuple shorter than the rank is completed by ':'
ItemAt(idx, j) == IF j <= Len(idx) THEN idx[j] ELSE FullSlice

SliceLo(it, d) == Min(it.lo, d)
SliceHi(it, d) == IF it.open THEN d ELSE Min(it.hi, d)
SliceLen(it, d) == Max(0, SliceHi(it, d) - SliceLo(it, d))

AdvDims(t, idx) == {j \in 1..Rank(t) : IsAdv(ItemAt(idx, j))}
\* the 1-D indices broadcast to one length
AdvLen(t, idx) ==
    IF \E j \in AdvDims(t, idx) : Len(ItemAt(idx, j).seq) # 1
    THEN Len(ItemAt(idx, CHOOSE j \in AdvDims(t, idx) : Len(ItemAt(idx, j).seq) # 1).seq)
    ELSE 1

\* the result has no entries: a slice selects nothing
GetItemEmpty(t, idx) ==
    \E j \in 1..Rank(t) :
        ItemAt(idx, j).k = "slice" /\ SliceLen(ItemAt(idx, j), t.shape[j]) = 0

\* Indexing succeeds.  An int is checked against its dimension when it
\* selects, and the index tensors' lengths when they are broadcast.  The
\* values of an index tensor are checked either before indexing (upfront,
\* as torch 1.0 does) or as the entries of the result are read (as later
\* versions of torch do), which checks nothing when the result is empty.
GetItemOk(t, idx, upfront) ==
    /\ Len(idx) <= Rank(t)
    /\ \A j \in 1..Rank(t) :
          LET it == ItemAt(idx, j)
          IN  /\ it.k = "int" => it.i < t.shape[j]
              /\ IsAdv(it) =>
                    /\ Len(it.seq) \in {1, AdvLen(t, idx)}
                    /\ (upfront \/ ~GetItemEmpty(t, idx)) =>
                          \A p \in 1..Len(it.seq) : it.seq[p] < t.shape[j]

\* The layout of the result: one entry per result dimension, the source
\* dimension of a slice or 0 for the dimension the index tensors make.
\* Ints select first; index tensors that are then adjacent put their
\* dimension in place, index tensors separated by a slice put it first.
Layout(t, idx) ==
    LET r == Rank(t)
        dims == [j \in 1..r |-> j]
        IsSlice(j) == ItemAt(idx, j).k = "slice"
        adv == AdvDims(t, idx)
        first == CHOOSE j \in adv : \A j2 \in adv : j <= j2
        last == CHOOSE j \in adv : \A j2 \in adv : j2 <= j
        adjacent == \A j \in first..last : ~IsSlice(j)
        InPlace(j) == IsSlice(j) \/ j = first
        mark == [j \in 1..r |-> IF IsSlice(j) THEN j ELSE 0]
        Place(seq) == [p \in 1..Len(seq) |-> mark[seq[p]]]
    IN  IF adv = {} THEN SelectSeq(dims, IsSlice)
        ELSE IF adjacent THEN Place(SelectSeq(dims, InPlace))
        ELSE <<0>> \o SelectSeq(dims, IsSlice)

\* the result for a layout lay, index tensors of length L, and pos: the
\* result dimension of each source dimension (of the index tensors, at 0)
GetItemLaid(t, idx, lay, L, pos) ==
    LET shape == [p \in 1..Len(lay) |->
                     IF lay[p] = 0 THEN L ELSE SliceLen(ItemAt(idx, lay[p]), t.shape[lay[p]])]
        Src(out) ==
            [j \in 1..Rank(t) |->
                LET it == ItemAt(idx, j)
                IN  IF it.k = "int" THEN it.i
                    ELSE IF it.k = "slice" THEN SliceLo(it, t.shape[j]) + out[pos[j]]
                    ELSE IF Len(it.seq) = 1 THEN it.seq[1]
                    ELSE it.seq[out[pos[0]] + 1]]
    IN  MkTensor(shape, [out \in Coords(shape) |-> At(t, Src(out))])

PosIn(lay, r) ==
    [j \in 0..r |-> IF \E p \in 1..Len(lay) : lay[p] = j
                    THEN CHOOSE p \in 1..Len(lay) : lay[p] = j ELSE 0]

GetItemWith(t, idx, lay) == GetItemLaid(t, idx, lay, AdvLen(t, idx), PosIn(lay, Rank(t)))

GetItem(t, idx) == GetItemWith(t, idx, Layout(t, idx))

\* ------------------------------------------------------------- objects
TensorObj(t) == [kind |-> "Tensor", shape |-> t.shape, data |-> t.data]
\* an instance of another LazyTensor subclass
OtherLazyObj == [kind |-> "LazyTensor"]
\* an object that is neither a tensor nor a LazyTensor
PlainObj == [kind |-> "Object"]

ValueOf(h, id) == [shape |-> h[id].shape, data |-> h[id].data]

\* torch.is_tensor(obj)
IsTensor(h, id) == h[id].kind = "Tensor"
\* isinstance(obj, LazyTensor)
IsLazyTensor(h, id) == h[id].kind \in {"LazyTensor", "NonLazyTensor"}
IsNonLazy(h, id) == h[id].kind = "NonLazyTensor"

NoRet == [kind |-> "none"]
RefRet(id) == [kind |-> "ref", id |-> id]
TensorRet(t) == [kind |-> "tensor", val |-> t]

\* outcome of a call: the heap after it, what it returned, what it raised
Outcome(h, r, e) == [heap |-> h, ret |-> r, exc |-> e]
Raise(h, e) == Outcome(h, NoRet, e)

\* faulty variant: the constructor without its type check
NewNonLazyTensor_unchecked(h, x) ==
    Outcome(Append(h, [kind |-> "NonLazyTensor", args |-> <<x>>, tensor |-> x]),
            RefRet(Len(h) + 1), "none")

\* NonLazyTensor.__init__ (after allocation of the instance)
NewNonLazyTensor(h, x) ==
    IF ~IsTensor(h, x)
    THEN Raise(h, "RuntimeError")
    ELSE Outcome(Append(h, [kind |-> "NonLazyTensor", args |-> <<x>>, tensor |-> x]),
                 RefRet(Len(h) + 1), "none")

\* NonLazyTensor(res) for a tensor res that is not on the heap yet
WrapFresh(h, t) == NewNonLazyTensor(Append(h, TensorObj(t)), Len(h) + 1)

\* faulty variant: a NonLazyTensor is unwrapped and wrapped again
lazify_rewrap(h, x) ==
    IF IsTensor(h, x) THEN NewNonLazyTensor(h, x)
    ELSE IF IsNonLazy(h, x) THEN NewNonLazyTensor(h, h[x].tensor)
    ELSE IF IsLazyTensor(h, x) THEN Outcome(h, RefRet(x), "none")
    ELSE Raise(h, "TypeError")

\* faulty variant: whatever is no LazyTensor goes to the constructor
lazify_noelse(h, x) ==
    IF IsLazyTensor(h, x) THEN Outcome(h, RefRet(x), "none")
    ELSE NewNonLazyTensor(h, x)

lazify(h, x) ==
    IF IsTensor(h, x) THEN NewNonLazyTensor(h, x)
    ELSE IF IsLazyTensor(h, x) THEN Outcome(h, RefRet(x), "none")
    ELSE Raise(h, "TypeError")

\* faulty variant: evaluate() returns a copy of the tensor
evaluate_clone(h, o) == Outcome(h, TensorRet(ValueOf(h, h[o].tensor)), "none")

evaluate(h, o) == Outcome(h, RefRet(h[o].tensor), "none")

size(h, o) == Outcome(h, [kind |-> "size", shape |-> h[h[o].tensor].shape], "none")

TupleRet(items) == [kind |-> "tuple", items |-> items]

\* faulty variant: the operands of the product are swapped
matmul_swapped(h, o, rhs) ==
    LET t == ValueOf(h, h[o].tensor)
    IN  IF MatmulOk(rhs, t) THEN Outcome(h, TensorRet(Matmul(rhs, t)), "none")
        ELSE Raise(h, "RuntimeError")

matmul(h, o, rhs) ==
    LET t == ValueOf(h, h[o].tensor)
    IN  IF MatmulOk(t, rhs) THEN Outcome(h, TensorRet(Matmul(t, rhs)), "none")
        ELSE Raise(h, "RuntimeError")

\* faulty variant: right_vecs is not transposed
quad_form_derivative_plain(h, o, left_vecs, right_vecs) ==
    IF ~MatmulOk(left_vecs, right_vecs) THEN Raise(h, "RuntimeError")
    ELSE Outcome(h, TupleRet(<<Matmul(left_vecs, right_vecs)>>), "none")

quad_form_derivative(h, o, left_vecs, right_vecs) ==
    IF ~TransposeOk(right_vecs) THEN Raise(h, "IndexError")
    ELSE IF ~MatmulOk(left_vecs, Transpose(right_vecs)) THEN Raise(h, "RuntimeError")
    ELSE Outcome(h, TupleRet(<<Matmul(left_vecs, Transpose(right_vecs))>>), "none")

\* faulty variant: the transposition replaces the wrapped tensor and returns self
transpose_inplace(h, o) ==
    LET t == ValueOf(h, h[o].tensor)
    IN  IF TransposeOk(t)
        THEN Outcome([h EXCEPT ![h[o].tensor] = TensorObj(Transpose(t))], RefRet(o), "none")
        ELSE Raise(h, "IndexError")

transpose_nonbatch(h, o) ==
    LET t == ValueOf(h, h[o].tensor)
    IN  IF TransposeOk(t) THEN WrapFresh(h, Transpose(t)) ELSE Raise(h, "IndexError")

\* faulty variant: the wrapped tensor is not transposed
t_matmul_plain(h, o, rhs) ==
    LET t == ValueOf(h, h[o].tensor)
    IN  IF MatmulOk(t, rhs) THEN Outcome(h, TensorRet(Matmul(t, rhs)), "none")
        ELSE Raise(h, "RuntimeError")

t_matmul(h, o, rhs) ==
    LET t == ValueOf(h, h[o].tensor)
    IN  IF ~TransposeOk(t) THEN Raise(h, "IndexError")
        ELSE IF ~MatmulOk(Transpose(t), rhs) THEN Raise(h, "RuntimeError")
        ELSE Outcome(h, TensorRet(Matmul(Transpose(t), rhs)), "none")

\* faulty variant: diagonal() with its default dimensions, the first two
diag_first_dims(h, o) ==
    LET t == ValueOf(h, h[o].tensor)
        rest == SubSeq(t.shape, 3, Rank(t))
        shape == rest \o <<Min(t.shape[1], t.shape[2])>>
        d == MkTensor(shape,
                      [idx \in Coords(shape) |->
                          At(t, <<idx[Len(idx)], idx[Len(idx)]>> \o SubSeq(idx, 1, Len(idx) - 1))])
    IN  IF DiagonalOk(t) THEN Outcome(h, TensorRet(d), "none") ELSE Raise(h, "IndexError")

diag(h, o) ==
    LET t == ValueOf(h, h[o].tensor)
    IN  IF DiagonalOk(t) THEN Outcome(h, TensorRet(Diagonal(t)), "none")
        ELSE Raise(h, "IndexError")

get_indices(h, o, left_indices, right_indices, batch_indices, upfront) ==
    LET t == ValueOf(h, h[o].tensor)
        idx == batch_indices \o <<left_indices, right_indices>>
    IN  IF GetItemOk(t, idx, upfront) THEN Outcome(h, TensorRet(GetItem(t, idx)), "none")
        ELSE Raise(h, "IndexError")

IsIntOrTensor(it) == it.k = "int" \/ it.k = "tensor"

getitem(h, o, indices, upfront) ==
    LET t == ValueOf(h, h[o].tensor)
    IN  IF ~GetItemOk(t, indices, upfront) \/ Len(indices) < 2 THEN Raise(h, "IndexError")
        ELSE IF \/ IsIntOrTensor(indices[Len(indices) - 1])
                \/ IsIntOrTensor(indices[Len(indices)])
        THEN Outcome(h, TensorRet(GetItem(t, indices)), "none")
        ELSE WrapFresh(h, GetItem(t, indices))

\* ------------------------------------------------------------- actions
Do(op, self, args, out) ==
    /\ heap' = out.heap
    /\ ret' = out.ret
    /\ exc' = out.exc
    /\ call' = [op |-> op, self |-> self, args |-> args]

Ids == DOMAIN heap
NonLazyIds == {o \in Ids : IsNonLazy(heap, o)}

Construct == \E x \in Ids : Do("NonLazyTensor", 0, <<x>>, NewNonLazyTensor(heap, x))

Lazify == \E x \in Ids : Do("lazify", 0, <<x>>, lazify(heap, x))

Evaluate == \E o \in NonLazyIds : Do("evaluate", o, <<>>, evaluate(heap, o))

Size == \E o \in NonLazyIds : Do("_size", o, <<>>, size(heap, o))

TransposeNonbatch == \E o \in NonLazyIds :
    Do("_transpose_nonbatch", o, <<>>, transpose_nonbatch(heap, o))

Diag == \E o \in NonLazyIds : Do("diag", o, <<>>, diag(heap, o))

\* the calls that take tensors or indices draw them from the given sets
MatmulCall(Args) == \E o \in NonLazyIds, rhs \in Args :
    Do("_matmul", o, <<rhs>>, matmul(heap, o, rhs))

TMatmulCall(Args) == \E o \in NonLazyIds, rhs \in Args :
    Do("_t_matmul", o, <<rhs>>, t_matmul(heap, o, rhs))

QuadFormDerivative(Args) == \E o \in NonLazyIds, l \in Args, r \in Args :
    Do("_quad_form_derivative", o, <<l, r>>, quad_form_derivative(heap, o, l, r))

GetIndicesCall(Items, BatchLens) == \E o \in NonLazyIds, nb \in BatchLens :
    \E l \in Items, r \in Items, b \in [1..nb -> Items], upfront \in BOOLEAN :
        Do("_get_indices", o, <<l, r, b>>, get_indices(heap, o, l, r, b, upfront))

GetItemCall(Tuples) == \E o \in NonLazyIds, idx \in Tuples, upfront \in BOOLEAN :
    Do("_getitem", o, idx, getitem(heap, o, idx, upfront))

\* ------------------------------------------------------------- inputs
\* arguments of the products: vectors, matrices and batches of matrices
ArgShapes == UNION {[1..r -> 1..MaxDim] : r \in 1..3}
ArgTensors == {Arange(s, MaxStart) : s \in ArgShapes}
\* one of them, a column
OneColumn == {Arange(<<MaxDim, 1>>, MaxStart)}

\* index values cover every position of a dimension (and miss the short ones)
IndexSeqs == {<<i>> : i \in 0..(MaxDim - 1)} \cup {<<MaxDim - 1, 0>>}
Indices ==
    {IntIdx(i) : i \in 0..(MaxDim - 1)}
    \cup {FullSlice, SliceIdx(0, 1), SliceFrom(1)}
    \cup {TensorIdx(q) : q \in IndexSeqs}
    \cup {ListIdx(q) : q \in IndexSeqs}
IntAndTensorIndices == {it \in Indices : IsIntOrTensor(it)}
IndexTuples == UNION {[1..n -> Indices] : n \in 2..3}
\* a few: a row, the whole matrix, and two lists that pick one entry
FewTuples == {<<IntIdx(0), FullSlice>>, <<FullSlice, FullSlice>>, <<ListIdx(<<0>>), ListIdx(<<0>>)>>}

NoCall == [op |-> "none", self |-> 0, args |-> <<>>]

\* ------------------------------------------- the life of the objects
\* Starts from one object of any kind (a tensor of any shape, another
\* LazyTensor, a plain object); every operation, with few arguments.
Init ==
    /\ \E x \in {TensorObj(Arange(s, MaxStart)) : s \in Shapes} \cup {OtherLazyObj, PlainObj} :
          heap = <<x>>
    /\ call = NoCall
    /\ ret = NoRet
    /\ exc = "none"

\* a step that leaves at most cap objects on the heap
Within(cap, A) == A /\ Len(heap') <= cap

Next ==
    \/ Within(MaxHeap, Construct)
    \/ Within(MaxHeap, Lazify)
    \/ Evaluate
    \/ Size
    \/ Within(MaxHeap, TransposeNonbatch)
    \/ Diag
    \/ MatmulCall(OneColumn)
    \/ TMatmulCall(OneColumn)
    \/ QuadFormDerivative(OneColumn)
    \/ GetIndicesCall({IntIdx(0)}, {0})
    \/ Within(MaxHeap, GetItemCall(FewTuples))

Spec == Init /\ [][Next]_vars

\* C1: lazify(t) of a dense tensor t returns a new NonLazyTensor that wraps
\* t, and evaluate() on it returns t itself, entries and size untouched:
\* both as the next call made and as evaluate() computes it on the result.
C1_LazifyEvaluateRoundTrip ==
    [][/\ (call'.op = "lazify" /\ IsTensor(heap, call'.args[1])) =>
             LET t == call'.args[1]
             IN  /\ exc' = "none"
                 /\ ret'.kind = "ref"
                 /\ ret'.id \notin DOMAIN heap
                 /\ IsNonLazy(heap', ret'.id)
                 /\ heap'[ret'.id].tensor = t
                 /\ heap'[t] = heap[t]
                 /\ evaluate(heap', ret'.id) = Outcome(heap', RefRet(t), "none")
       /\ (/\ call.op = "lazify" /\ exc = "none" /\ IsTensor(heap, call.args[1])
           /\ call'.op = "evaluate" /\ call'.self = ret.id) =>
             /\ ret' = RefRet(call.args[1])
             /\ exc' = "none"
             /\ heap'[call.args[1]] = heap[call.args[1]]
      ]_vars

\* a dense tensor was lazified into the newest object of the heap
C1_Witness ==
    /\ call.op = "lazify" /\ exc = "none"
    /\ IsTensor(heap, call.args[1])
    /\ ret = RefRet(Len(heap))
    /\ heap[Len(heap)].tensor = call.args[1]

\* C2: lazify(obj) of a LazyTensor returns that very object and changes
\* nothing; lazify(lazify(x)) is the object lazify(x) returned.
C2_LazifyIdempotent ==
    [][call'.op = "lazify" =>
          LET x == call'.args[1]
          IN  /\ IsLazyTensor(heap, x) =>
                    ret' = RefRet(x) /\ exc' = "none" /\ heap' = heap
              /\ (call.op = "lazify" /\ exc = "none" /\ x = ret.id) =>
                    ret' = ret /\ exc' = "none" /\ heap' = heap
      ]_vars

\* lazify was given a NonLazyTensor and returned it
C2_Witness ==
    /\ call.op = "lazify" /\ exc = "none"
    /\ IsNonLazy(heap, call.args[1])
    /\ ret = RefRet(call.args[1])

\* C3: lazify raises TypeError, returning nothing, exactly when obj is
\* neither a dense tensor nor a LazyTensor; otherwise it returns a
\* LazyTensor; it never raises the constructor's RuntimeError.
C3_LazifyTypeError ==
    call.op = "lazify" =>
        LET x == call.args[1]
        IN  /\ exc = "TypeError" <=> (~IsTensor(heap, x) /\ ~IsLazyTensor(heap, x))
            /\ exc = "TypeError" => ret = NoRet
            /\ (IsTensor(heap, x) \/ IsLazyTensor(heap, x)) =>
                  exc = "none" /\ ret.kind = "ref" /\ IsLazyTensor(heap, ret.id)
            /\ exc # "RuntimeError"

\* lazify was given a plain object
C3_Witness == call.op = "lazify" /\ exc = "TypeError" /\ heap[call.args[1]] = PlainObj

\* C4: NonLazyTensor(tsr) of a non-tensor raises RuntimeError and leaves no
\* object behind (neither the base initializer nor the attribute was
\* reached); of a dense tensor it yields a new object wrapping it. Every
\* NonLazyTensor wraps a dense tensor.
C4_ConstructorTypeCheck ==
    [][/\ call'.op = "NonLazyTensor" =>
             LET x == call'.args[1]
             IN  /\ ~IsTensor(heap, x) =>
                       exc' = "RuntimeError" /\ ret' = NoRet /\ heap' = heap
                 /\ IsTensor(heap, x) =>
                       /\ exc' = "none"
                       /\ ret' = RefRet(Len(heap) + 1)
                       /\ Len(heap') = Len(heap) + 1
                       /\ heap'[ret'.id] = [kind |-> "NonLazyTensor", args |-> <<x>>, tensor |-> x]
       /\ \A o \in DOMAIN heap' : IsNonLazy(heap', o) => IsTensor(heap', heap'[o].tensor)
      ]_vars

\* the constructor refused a NonLazyTensor built earlier
C4_Witness ==
    /\ call.op = "NonLazyTensor" /\ exc = "RuntimeError"
    /\ IsNonLazy(heap, call.args[1])

\* C10: no call changes or rebinds the tensor a NonLazyTensor wraps:
\* across every step evaluate() returns the same tensor with the same
\* size and entries, and _size() the same size.
C10_WrappedTensorUnchanged ==
    [][\A o \in NonLazyIds :
          /\ o \in DOMAIN heap'
          /\ heap'[o] = heap[o]
          /\ evaluate(heap', o).ret = evaluate(heap, o).ret
          /\ heap'[heap[o].tensor] = heap[heap[o].tensor]
          /\ size(heap', o).ret = size(heap, o).ret
      ]_vars

\* evaluate() on the first adapter, after other calls made the heap grow
C10_Witness ==
    /\ call.op = "evaluate" /\ call.self = 2
    /\ Len(heap) = MaxHeap
    /\ ret = RefRet(1)

\* ---------------------------------- one call on a constructed adapter
\* The state after NonLazyTensor(t), for every input tensor t.
InitWrapped ==
    /\ \E t \in InputTensors : heap = NewNonLazyTensor(<<TensorObj(t)>>, 1).heap
    /\ call = NoCall
    /\ ret = NoRet
    /\ exc = "none"

\* no call was made yet
Fresh == call = NoCall

\* the products, with every argument
NextProd ==
    \/ Fresh /\ MatmulCall(ArgTensors)
    \/ Fresh /\ TMatmulCall(ArgTensors)
    \/ Fresh /\ QuadFormDerivative(ArgTensors)
    \/ Fresh /\ Size

SpecProd == InitWrapped /\ [][NextProd]_vars

\* the adapter of these specifications is object 2, around object 1
Wrapped == ValueOf(heap, 1)

\* the coordinates over a shape
\* C5: _matmul(rhs) of a wrapped n x m matrix (or batch of them) and a rhs
\* with m rows is the dense product, entry by entry, of the size the
\* product has and with nothing else in it; _size() is the size of A.
C5_MatmulIsDenseProduct ==
    /\ call.op = "_size" => exc = "none" /\ ret = [kind |-> "size", shape |-> Wrapped.shape]
    /\ call.op = "_matmul" =>
          LET A == Wrapped
              rhs == call.args[1]
              batch == BatchOf(A.shape)
              n == A.shape[Rank(A) - 1]
              m == A.shape[Rank(A)]
              vec == Rank(rhs) = 1
              k == IF vec THEN 1 ELSE rhs.shape[Rank(rhs)]
              RhsAt(b, j, c) ==
                  At(rhs, (IF Rank(rhs) = 3 THEN b ELSE <<>>) \o <<j>> \o (IF vec THEN <<>> ELSE <<c>>))
              Dot(b, i, c) == Sum([j \in 0..(m - 1) |-> At(A, b \o <<i, j>>) * RhsAt(b, j, c)], m)
          IN  (/\ (IF vec THEN rhs.shape[1] ELSE rhs.shape[Rank(rhs) - 1]) = m
               /\ Rank(rhs) = 3 => Rank(A) = 3 /\ rhs.shape[1] = A.shape[1]) =>
                  /\ exc = "none"
                  /\ ret.kind = "tensor"
                  /\ ret.val.shape = batch \o <<n>> \o (IF vec THEN <<>> ELSE <<k>>)
                  /\ Len(ret.val.data) = Numel(batch) * n * k
                  /\ \A b \in Coords(batch), i \in 0..(n - 1), c \in 0..(k - 1) :
                        At(ret.val, b \o <<i>> \o (IF vec THEN <<>> ELSE <<c>>)) = Dot(b, i, c)

\* a 1 x MaxDim matrix was multiplied with a square one
C5_Witness ==
    /\ call.op = "_matmul" /\ exc = "none"
    /\ Wrapped.shape = <<1, MaxDim>>
    /\ call.args[1].shape = <<MaxDim, MaxDim>>
    /\ ret.val.shape = <<1, MaxDim>>

\* C8: _quad_form_derivative(left_vecs, right_vecs) returns a tuple of one
\* element, left_vecs times the transpose of right_vecs over the last two
\* dimensions; the wrapped tensor has no part in it; with n and m rows the
\* element has the size n x m of the wrapped matrix.
C8_QuadFormDerivative ==
    call.op = "_quad_form_derivative" =>
        LET l == call.args[1]
            r == call.args[2]
            batch == BatchOf(l.shape)
            n == l.shape[Rank(l) - 1]
            m == r.shape[Rank(r) - 1]
            k == l.shape[Rank(l)]
            Dot(b, i, j) == Sum([c \in 0..(k - 1) |-> At(l, b \o <<i, c>>) * At(r, b \o <<j, c>>)], k)
            \* the same call on an adapter around one fixed tensor
            fixed == quad_form_derivative(
                         NewNonLazyTensor(<<TensorObj(Arange(<<1, 1>>, 0))>>, 1).heap, 2, l, r)
        IN  /\ fixed.ret = ret /\ fixed.exc = exc
            /\ (/\ Rank(l) >= 2 /\ Rank(r) = Rank(l)
                /\ BatchOf(r.shape) = batch
                /\ r.shape[Rank(r)] = k) =>
                  /\ exc = "none"
                  /\ ret.kind = "tuple"
                  /\ Len(ret.items) = 1
                  /\ ret.items[1].shape = batch \o <<n, m>>
                  /\ Len(ret.items[1].data) = Numel(batch) * n * m
                  /\ \A b \in Coords(batch), i \in 0..(n - 1), j \in 0..(m - 1) :
                        At(ret.items[1], b \o <<i, j>>) = Dot(b, i, j)
                  /\ (l.shape = batch \o <<n, k>> /\ Wrapped.shape = batch \o <<n, m>>) =>
                        ret.items[1].shape = Wrapped.shape

\* vectors for a 1 x MaxDim matrix: one row on the left, MaxDim on the right
C8_Witness ==
    /\ call.op = "_quad_form_derivative" /\ exc = "none"
    /\ call.args[1].shape = <<1, MaxDim>>
    /\ call.args[2].shape = <<MaxDim, MaxDim>>
    /\ Wrapped.shape = <<1, MaxDim>>
    /\ ret.items[1].shape = Wrapped.shape

\* indexing, with every index
NextIndex ==
    \/ Fresh /\ GetItemCall(IndexTuples)
    \/ Fresh /\ GetIndicesCall(IntAndTensorIndices, 0..1)
    \/ Fresh /\ Diag

SpecIndex == InitWrapped /\ [][NextIndex]_vars

\* C6: _getitem(*indices) computes the tensor's own indexing result;
\* it returns it raw when the row index or the column index is an int or
\* a tensor, and otherwise wrapped in a new NonLazyTensor, which still has
\* a row and a column dimension; the batch index has no say in this.
C6_GetItemWrapsMatrices ==
    (call.op = "_getitem" /\ exc = "none") =>
        LET idx == call.args
            res == GetItem(Wrapped, idx)
        IN  IF IsIntOrTensor(idx[Len(idx) - 1]) \/ IsIntOrTensor(idx[Len(idx)])
            THEN ret = TensorRet(res) /\ Len(heap) = 2
            ELSE /\ ret = RefRet(4)
                 /\ Len(heap) = 4
                 /\ heap[4] = [kind |-> "NonLazyTensor", args |-> <<3>>, tensor |-> 3]
                 /\ heap[3] = TensorObj(res)
                 /\ Rank(res) >= 2

\* the part of C6 that the code does: which results are wrapped
C6_WrapRule ==
    (call.op = "_getitem" /\ exc = "none") =>
        LET idx == call.args
            res == GetItem(Wrapped, idx)
        IN  IF IsIntOrTensor(idx[Len(idx) - 1]) \/ IsIntOrTensor(idx[Len(idx)])
            THEN ret = TensorRet(res) /\ Len(heap) = 2
            ELSE /\ ret = RefRet(4)
                 /\ Len(heap) = 4
                 /\ heap[4] = [kind |-> "NonLazyTensor", args |-> <<3>>, tensor |-> 3]
                 /\ heap[3] = TensorObj(res)
                 /\ (idx[Len(idx) - 1].k = "slice" /\ idx[Len(idx)].k = "slice") => Rank(res) >= 2

\* C7: diag() holds, for each batch, the entries with equal row and column
\* index, in order: the entry i (of batch b) is _get_indices(i, i) (with
\* batch index b), and there are min(rows, columns) of them.
C7_DiagIsDiagonal ==
    call.op = "diag" =>
        LET A == Wrapped
            batch == BatchOf(A.shape)
            len == Min(A.shape[Rank(A) - 1], A.shape[Rank(A)])
            Ints(b) == [j \in 1..Len(b) |-> IntIdx(b[j])]
        IN  /\ exc = "none"
            /\ ret.kind = "tensor"
            /\ ret.val.shape = batch \o <<len>>
            /\ Len(ret.val.data) = Numel(batch) * len
            /\ \A b \in Coords(batch), i \in 0..(len - 1), upfront \in BOOLEAN :
                  LET entry == get_indices(heap, 2, IntIdx(i), IntIdx(i), Ints(b), upfront)
                  IN  /\ entry.exc = "none"
                      /\ entry.ret.val.shape = <<>>
                      /\ entry.ret.val.data = <<At(ret.val, b \o <<i>>)>>
                      /\ entry.ret.val.data = <<At(A, b \o <<i, i>>)>>

\* the diagonals of a batch of MaxDim matrices of size 1 x MaxDim
C7_Witness ==
    /\ call.op = "diag" /\ exc = "none"
    /\ Wrapped.shape = <<MaxDim, 1, MaxDim>>
    /\ ret.val.shape = <<MaxDim, 1>>

\* transpositions in a chain, then one product or evaluate()
Chaining == call.op \in {"none", "_transpose_nonbatch"}
NextTranspose ==
    \/ Chaining /\ Within(2 + 2 * MaxTransposes, TransposeNonbatch)
    \/ Chaining /\ MatmulCall(ArgTensors)
    \/ Chaining /\ TMatmulCall(ArgTensors)
    \/ Chaining /\ Evaluate

SpecTranspose == InitWrapped /\ [][NextTranspose]_vars

\* C9: _transpose_nonbatch() returns a new NonLazyTensor of size m x n with
\* entry [j][i] = A[i][j]; a product with it is _t_matmul of the original,
\* entry by entry sum over i of A[i][j] * rhs[i][k]; transposing twice
\* gives the size and entries of A back.
C9_TransposeConsistent ==
    [][/\ (call'.op = "_transpose_nonbatch" /\ exc' = "none") =>
             LET A == ValueOf(heap, heap[call'.self].tensor)
                 B == ValueOf(heap', heap'[ret'.id].tensor)
                 r == Rank(A)
             IN  /\ ret'.kind = "ref"
                 /\ ret'.id \notin DOMAIN heap
                 /\ IsNonLazy(heap', ret'.id)
                 /\ size(heap', ret'.id).ret.shape = BatchOf(A.shape) \o <<A.shape[r], A.shape[r - 1]>>
                 /\ \A c \in Coords(A.shape) :
                       At(B, SubSeq(c, 1, r - 2) \o <<c[r], c[r - 1]>>) = At(A, c)
       /\ (/\ call.op = "_transpose_nonbatch" /\ exc = "none"
           /\ call'.op = "_matmul" /\ call'.self = ret.id) =>
             LET A == ValueOf(heap, heap[call.self].tensor)
                 rhs == call'.args[1]
                 same == t_matmul(heap, call.self, rhs)
             IN  /\ ret' = same.ret /\ exc' = same.exc
                 /\ (Rank(A) = 2 /\ Rank(rhs) = 2 /\ rhs.shape[1] = A.shape[1]) =>
                       /\ exc' = "none"
                       /\ ret'.val.shape = <<A.shape[2], rhs.shape[2]>>
                       /\ \A j \in 0..(A.shape[2] - 1), k \in 0..(rhs.shape[2] - 1) :
                             At(ret'.val, <<j, k>>) =
                                 Sum([i \in 0..(A.shape[1] - 1) |->
                                         At(A, <<i, j>>) * At(rhs, <<i, k>>)], A.shape[1])
       /\ (/\ call.op = "_transpose_nonbatch" /\ exc = "none"
           /\ call'.op = "_t_matmul" /\ call'.self = call.self) =>
             LET same == matmul(heap, ret.id, call'.args[1])
             IN  ret' = same.ret /\ exc' = same.exc
       /\ (/\ call.op = "_transpose_nonbatch" /\ exc = "none"
           /\ call'.op = "_transpose_nonbatch" /\ call'.self = ret.id) =>
             /\ exc' = "none"
             /\ ValueOf(heap', evaluate(heap', ret'.id).ret.id)
                    = ValueOf(heap, evaluate(heap, call.self).ret.id)
      ]_vars

\* the transpose of the transpose of a 1 x MaxDim matrix
C9_Witness ==
    /\ call.op = "_transpose_nonbatch" /\ exc = "none"
    /\ call.self = 4 /\ ret = RefRet(6)
    /\ heap[3].shape = <<MaxDim, 1>>
    /\ heap[5].shape = <<1, MaxDim>>
    /\ heap[5] = heap[1]
====
